---- MODULE Spec2Model ----
(***************************************************************************)
(* Model of logai/algorithms/vectorization_algo/forecast_nn.py:            *)
(* the ForecastNN vectorizer (fit / transform / _dump_meta_data), the      *)
(* ForecastNNVectorizedDataset constructor and _process_logsequence.       *)
(*                                                                         *)
(* Text is a sequence of symbols; "[SEP]" is one symbol.  Optional values  *)
(* (Python None) are <<>> for None and <<x>> for the value x.              *)
(***************************************************************************)
EXTENDS Integers, Sequences, FiniteSets, TLC

VARIABLES
    config,      \* per orchestrator: [feature_type, label_type]
    seq_vocab,   \* per orchestrator: sequential_vectorizer.vocab (optional)
    sem_vocab,   \* per orchestrator: semantic_vectorizer.vocab (optional)
    meta_data,   \* per orchestrator: the meta_data dict
    file,        \* the metadata file shared by the orchestrators
    last,        \* the last call: what was called and how it ended
    pending,     \* the pkl.dump under way: what is still to be written
    pre          \* the input and the result of _process_logsequence alone

vars == <<config, seq_vocab, sem_vocab, meta_data, file, last, pending, pre>>

-----------------------------------------------------------------------------
(* Values *)

None == <<>>
Some(x) == <<x>>

\* a missing entry of a pandas Series (NaN); no text is equal to it
NaN == <<"<NaN>">>

sep_token == <<"[SEP]">>
max_token_len == 2
min_token_count == 2
embedding_dim == 1

NEXT_LOGLINE_NAME == "next_logline"

\* the orchestrators built on one output_dir (one metadata path)
Orchestrators == {1, 2}

\* feature_type: the two supported strings and the unconfigured default
FeatureTypes == {"sequential", "semantics", "None"}
LabelTypes == {"anomaly", "next_token"}

EmptyDict == [k \in {} |-> 0]

DictSet(d, key, v) ==
    [k \in (DOMAIN d) \cup {key} |-> IF k = key THEN v ELSE d[k]]

-----------------------------------------------------------------------------
(* Text helpers: str.join, str.split(sep), str.split() *)

Min(S) == CHOOSE x \in S : \A y \in S : x <= y

RECURSIVE Join(_, _)
Join(list, sep) ==
    IF list = <<>> THEN <<>>
    ELSE IF Len(list) = 1 THEN list[1]
    ELSE list[1] \o sep \o Join(Tail(list), sep)

\* a split that cuts at the first occurrence of sep only
SplitFirst(s, sep) ==
    LET n == Len(s)
        k == Len(sep)
        at == {i \in 1..(n - k + 1) : SubSeq(s, i, i + k - 1) = sep}
    IN  IF at = {} THEN <<s>>
        ELSE LET i == Min(at)
             IN  <<SubSeq(s, 1, i - 1), SubSeq(s, i + k, n)>>

RECURSIVE Split(_, _)
Split(s, sep) ==
    LET n == Len(s)
        k == Len(sep)
        at == {i \in 1..(n - k + 1) : SubSeq(s, i, i + k - 1) = sep}
    IN  IF at = {} THEN <<s>>
        ELSE LET i == Min(at)
             IN  <<SubSeq(s, 1, i - 1)>> \o Split(SubSeq(s, i + k, n), sep)

Range(q) == {q[i] : i \in DOMAIN q}

SelectSeqNotNaN(q) == SelectSeq(q, LAMBDA e : e # NaN)

\* data_sequence.dropna(); sep_token.join(...).split(sep_token); set(...),
\* sep being self.config.sep_token
process_logsequence(sep, data_sequence) ==
    Range(Split(Join(SelectSeqNotNaN(data_sequence), sep), sep))

\* list(set(...)): the order of a set's elements is not fixed by the code
Orderings(S) ==
    {q \in [1..Cardinality(S) -> S] : \A x \in S : \E i \in DOMAIN q : q[i] = x}

-----------------------------------------------------------------------------
(* The sub-vectorizers Sequential and Semantic (sequential.py, semantic.py)  *)
(* are used through fit, transform, vocab, vocab_size and embed_matrix.      *)
(* A vocabulary is a sequence of words; a word's id is its position.         *)

Words(s) == SelectSeq(Split(s, <<" ">>), LAMBDA w : w # <<>>)

RECURSIVE AllWords(_)
AllWords(lines) ==
    IF lines = <<>> THEN <<>> ELSE Words(lines[1]) \o AllWords(Tail(lines))

RECURSIVE Unique(_)
Unique(q) ==
    IF q = <<>> THEN <<>>
    ELSE LET rest == Unique(SubSeq(q, 1, Len(q) - 1))
             x == q[Len(q)]
         IN  IF x \in Range(rest) THEN rest ELSE Append(rest, x)

Count(x, q) == Cardinality({i \in DOMAIN q : q[i] = x})

\* Sequential.fit: every word of the corpus, in order of first appearance
SequentialFit(loglines) == Unique(AllWords(loglines))

\* Semantic.fit: the words that occur at least min_token_count times
SemanticFit(loglines) ==
    LET all == AllWords(loglines)
    IN  SelectSeq(Unique(all), LAMBDA w : Count(w, all) >= min_token_count)

vocab_size(vocab) == Len(vocab)

\* Semantic.embed_matrix: one row of embedding_dim numbers per word
embed_matrix(vocab) ==
    [i \in 1..Len(vocab) |-> [j \in 1..embedding_dim |-> i]]

TokenId(vocab, w) ==
    IF \E i \in DOMAIN vocab : vocab[i] = w
    THEN CHOOSE i \in DOMAIN vocab : vocab[i] = w
    ELSE 0

Truncate(q, n) == SubSeq(q, 1, IF Len(q) < n THEN Len(q) ELSE n)

Ids(vocab, line) ==
    LET ws == Truncate(Words(line), max_token_len)
    IN  [i \in 1..Len(ws) |-> TokenId(vocab, ws[i])]

\* an outcome of a call: error is "" when the call returned value
Return(v) == [error |-> "", value |-> v]
Raise(kind) == [error |-> kind, value |-> <<>>]

\* Sequential.transform: one array of token ids per entry
SequentialTransformUnchecked(vocab, series) ==
    Return([i \in 1..Len(series) |->
               Ids(IF vocab = None THEN <<>> ELSE vocab[1], series[i])])
SequentialTransform(vocab, series) ==
    IF vocab = None THEN Raise("MissingVocabularyError")
    ELSE Return([i \in 1..Len(series) |-> Ids(vocab[1], series[i])])

\* Semantic.transform: one array of embedding rows per entry
SemanticTransform(vocab, series) ==
    IF vocab = None THEN Raise("MissingVocabularyError")
    ELSE Return([i \in 1..Len(series) |->
                    [j \in 1..Len(Ids(vocab[1], series[i])) |->
                        [d \in 1..embedding_dim |-> Ids(vocab[1], series[i])[j]]]])

-----------------------------------------------------------------------------
(* ForecastNNVectorizedDataset.__init__ *)

MinLen(a, b, c, d) == Min({Len(a), Len(b), Len(c), Len(d)})

\* zip(...) of the four inputs, one sample per position; zip stops at the
\* shortest input, and raises TypeError on an input that is None
ForecastNNVectorizedDataset(logline_features, labels, nextlogline_ids, span_ids) ==
    IF nextlogline_ids = None THEN Raise("TypeError")
    ELSE Return([i \in 1..MinLen(logline_features, labels,
                                 nextlogline_ids[1], span_ids) |->
                    [session_idx |-> <<span_ids[i]>>,
                     features |-> logline_features[i],
                     window_anomalies |-> labels[i],
                     window_labels |-> nextlogline_ids[1][i]]])

-----------------------------------------------------------------------------
(* The metadata file: pkl.dump writes the dict's items and a STOP mark,     *)
(* pkl.load reads them back and fails on a stream without the mark.         *)

NoFile == [exists |-> FALSE, bytes |-> <<>>]

KeyOrder == <<"vocab_size", "pretrain_matrix", "num_labels">>

Pickle(d) ==
    LET ks == SelectSeq(KeyOrder, LAMBDA k : k \in DOMAIN d)
    IN  [i \in 1..Len(ks) |-> <<ks[i], d[ks[i]]>>] \o << <<"STOP">> >>

Unpickle(bytes) ==
    IF bytes = <<>> \/ Len(bytes[Len(bytes)]) # 1
    THEN Raise("UnpicklingError")
    ELSE Return([k \in {bytes[i][1] : i \in 1..(Len(bytes) - 1)} |->
                    bytes[CHOOSE i \in 1..(Len(bytes) - 1) : bytes[i][1] = k][2]])

\* torch.Tensor(matrix)
Tensor(matrix) == [dtype |-> "float32", data |-> matrix]

-----------------------------------------------------------------------------
(* ForecastNN *)

\* "vocab is None"
IsUnsetAlways(vocab) == TRUE
IsUnset(vocab) == vocab = None

\* vocab_size of a sub-vectorizer (it is read only after the fit)
VocabSizeOf(vocab) == IF vocab = None THEN 0 ELSE vocab_size(vocab[1])

\* __init__: semantic_vectorizer is an object only for "semantics"
HasSemanticVectorizer(feature_type) == feature_type = "semantics"

\* _dump_meta_data: which sub-vectorizer's vocab_size is stored
VocabSizeSource(feature_type) ==
    IF feature_type = "sequential" THEN "sequential" ELSE "semantic"

\* _dump_meta_data: whether pretrain_matrix is stored
StoresPretrainMatrixNever(feature_type) == FALSE
StoresPretrainMatrix(feature_type) == feature_type = "semantics"

\* _dump_meta_data: num_labels
NumLabelsNoAnomaly(label_type, seqV) == VocabSizeOf(seqV)
NumLabelsAlwaysTwo(label_type, seqV) == 2
NumLabels(label_type, seqV) ==
    IF label_type = "anomaly" THEN 2 ELSE VocabSizeOf(seqV)

\* the outcome of _dump_meta_data: the error raised (or ""), meta_data and
\* the file afterwards, and which branch ran
DumpOutcome(e, m, f, s) == [error |-> e, meta_data |-> m, file |-> f, step |-> s]

ComputeMetaData(self, f) ==
    LET ft == self.config.feature_type
        src == VocabSizeSource(ft)
        m1 == DictSet(self.meta_data, "vocab_size",
                      IF src = "sequential" THEN VocabSizeOf(self.seq_vocab)
                      ELSE VocabSizeOf(self.sem_vocab))
        m2 == IF StoresPretrainMatrix(ft)
              THEN DictSet(m1, "pretrain_matrix",
                           Tensor(embed_matrix(self.sem_vocab[1])))
              ELSE m1
        m3 == DictSet(m2, "num_labels",
                      NumLabels(self.config.label_type, self.seq_vocab))
    IN  IF src = "semantic" /\ ~HasSemanticVectorizer(ft)
        THEN DumpOutcome("AttributeError", self.meta_data, f, "computed")
        ELSE IF StoresPretrainMatrix(ft) /\ ~HasSemanticVectorizer(ft)
        THEN DumpOutcome("AttributeError", m1, f, "computed")
        ELSE DumpOutcome("", m3, [exists |-> TRUE, bytes |-> Pickle(m3)], "computed")

LoadMetaDataNotStored(self, f) == DumpOutcome("", self.meta_data, f, "loaded")
LoadMetaData(self, f) ==
    LET got == Unpickle(f.bytes)
    IN  IF got.error # ""
        THEN DumpOutcome(got.error, self.meta_data, f, "loaded")
        ELSE DumpOutcome("", got.value, f, "loaded")

\* a load that recovers from an unreadable file by computing and writing anew
dump_meta_data_recover(self, f) ==
    IF ~f.exists \/ Unpickle(f.bytes).error # ""
    THEN ComputeMetaData(self, f) ELSE LoadMetaData(self, f)
dump_meta_data_always(self, f) == ComputeMetaData(self, f)
dump_meta_data(self, f) ==
    IF ~f.exists THEN ComputeMetaData(self, f) ELSE LoadMetaData(self, f)

-----------------------------------------------------------------------------
(* fit *)

\* the state of one orchestrator, as the methods see it
Self(o) == [config |-> config[o], seq_vocab |-> seq_vocab[o],
            sem_vocab |-> sem_vocab[o], meta_data |-> meta_data[o]]

\* the outcome of fit: the error raised (or ""), the orchestrator and the
\* file afterwards, the sub-vectorizer calls made, the metadata branch run
FitOutcome(e, self, f, calls, s) ==
    [error |-> e, self |-> self, file |-> f, calls |-> calls, step |-> s]

\* the condition of the first if of fit
VocabNeeded(self) ==
    IsUnset(self.seq_vocab)
        \/ (self.config.feature_type = "semantics" /\ IsUnset(self.sem_vocab))

\* the conditions of the second and the third if of fit
SeqFitNeededCoupled(self) == VocabNeeded(self)
SeqFitNeeded(self) == IsUnset(self.seq_vocab)

SemFitNeeded(self) ==
    self.config.feature_type = "semantics" /\ IsUnset(self.sem_vocab)

\* Semantic.fit on a corpus none of whose words is kept: an empty vocabulary
\* or an explicit error, as the sub-vectorizer chooses
SemanticFitOutcomes(loglines) ==
    {Return(SemanticFit(loglines))}
        \cup (IF SemanticFit(loglines) = <<>>
              THEN {Raise("ConfigurationError")} ELSE {})

\* the end of fit: self._dump_meta_data()
FinishFit(self, f, calls) ==
    LET d == dump_meta_data(self, f)
    IN  FitOutcome(d.error, [self EXCEPT !.meta_data = d.meta_data],
                   d.file, calls, d.step)

\* fit from the second if on, as the set of its possible outcomes; loglines
\* is None when the first if was skipped
FitVectorizers(self, f, loglines) ==
    LET fitSeq == SeqFitNeeded(self)
        fitSem == SemFitNeeded(self)
        s1 == IF fitSeq
              THEN [self EXCEPT !.seq_vocab = Some(SequentialFit(loglines[1]))]
              ELSE self
        c1 == IF fitSeq THEN <<"sequential.fit">> ELSE <<>>
        c2 == Append(c1, "semantic.fit")
    IN  IF fitSeq /\ loglines = None
        THEN {FitOutcome("UnboundLocalError", self, f, <<>>, "none")}
        ELSE IF ~fitSem
        THEN {FinishFit(s1, f, c1)}
        ELSE IF loglines = None
        THEN {FitOutcome("UnboundLocalError", s1, f, c1, "none")}
        ELSE {IF r.error # ""
              THEN FitOutcome(r.error, s1, f, c2, "none")
              ELSE FinishFit([s1 EXCEPT !.sem_vocab = Some(r.value)], f, c2) :
                r \in SemanticFitOutcomes(loglines[1])}

\* logrecord.attributes[constants.NEXT_LOGLINE_NAME]
NextLogLinesOrEmpty(logrecord) ==
    IF NEXT_LOGLINE_NAME \notin DOMAIN logrecord.attributes
    THEN Return(<<>>)
    ELSE Return(logrecord.attributes[NEXT_LOGLINE_NAME])
NextLogLines(logrecord) ==
    IF NEXT_LOGLINE_NAME \notin DOMAIN logrecord.attributes
    THEN Raise("KeyError")
    ELSE Return(logrecord.attributes[NEXT_LOGLINE_NAME])

\* fit(logrecord): the set of its possible outcomes
fit(self, f, logrecord) ==
    IF ~VocabNeeded(self)
    THEN FitVectorizers(self, f, None)
    ELSE IF NextLogLines(logrecord).error # ""
    THEN {FitOutcome(NextLogLines(logrecord).error, self, f, <<>>, "none")}
    ELSE UNION {FitVectorizers(self, f, Some(loglines)) :
                  loglines \in Orderings(process_logsequence(sep_token,
                      logrecord.body \o NextLogLines(logrecord).value))}

-----------------------------------------------------------------------------
(* transform *)

TransformOutcome(e, calls, samples) ==
    [error |-> e, calls |-> calls, samples |-> samples]

HasEmpty(q) == \E i \in DOMAIN q : q[i] = <<>>

FirstIds(q) == [i \in DOMAIN q |-> q[i][1]]

\* transform: the next lines go through the sequential sub-vectorizer
NextLineFeaturesActive(self, series) ==
    IF self.config.feature_type = "semantics"
    THEN SequentialTransform(self.sem_vocab, series)
    ELSE SequentialTransform(self.seq_vocab, series)
NextLineFeatures(self, series) == SequentialTransform(self.seq_vocab, series)

transform(self, logrecord) ==
    LET ft == self.config.feature_type
        feats == IF ft = "sequential"
                 THEN SequentialTransform(self.seq_vocab, logrecord.body)
                 ELSE IF ft = "semantics"
                 THEN SemanticTransform(self.sem_vocab, logrecord.body)
                 ELSE Return(None)     \* logline_features is not assigned
        c1 == IF ft = "sequential" THEN <<"sequential.transform">>
              ELSE IF ft = "semantics" THEN <<"semantic.transform">>
              ELSE <<>>
        hasNext == NEXT_LOGLINE_NAME \in DOMAIN logrecord.attributes
        next == NextLineFeatures(self, logrecord.attributes[NEXT_LOGLINE_NAME])
        c2 == IF hasNext THEN Append(c1, "sequential.transform") ELSE c1
        nextlogline_ids == IF hasNext THEN Some(FirstIds(next.value)) ELSE None
        built == ForecastNNVectorizedDataset(feats.value, logrecord.labels,
                                             nextlogline_ids, logrecord.span_id)
    IN  IF feats.error # "" THEN TransformOutcome(feats.error, c1, None)
        ELSE IF hasNext /\ next.error # ""
        THEN TransformOutcome(next.error, c2, None)
        ELSE IF hasNext /\ HasEmpty(next.value)
        THEN TransformOutcome("IndexError", c2, None)
        ELSE IF ft \notin {"sequential", "semantics"}
        THEN TransformOutcome("UnboundLocalError", c2, None)
        ELSE IF built.error # "" THEN TransformOutcome(built.error, c2, None)
        ELSE TransformOutcome("", c2, Some(built.value))

-----------------------------------------------------------------------------
(* The log records the calls are made with *)

Attr(next) == [k \in {NEXT_LOGLINE_NAME} |-> next]

LogRecords == <<
    \* two spans with their next lines
    [body |-> << <<"a", " ", "b", "[SEP]", "c">>, <<"a">> >>,
     attributes |-> Attr(<< <<"a">>, <<"c">> >>),
     labels |-> <<0, 1>>, span_id |-> <<10, 11>>],
    \* no next-line attribute
    [body |-> << <<"b">> >>,
     attributes |-> EmptyDict,
     labels |-> <<1>>, span_id |-> <<12>>],
    \* views of different lengths
    [body |-> << <<"b">>, <<"b", " ", "b">> >>,
     attributes |-> Attr(<< <<"b">>, <<"b">> >>),
     labels |-> <<0>>, span_id |-> <<13, 14>>],
    \* the last span of a log has no next line
    [body |-> << <<"a">> >>,
     attributes |-> Attr(<<NaN>>),
     labels |-> <<0>>, span_id |-> <<15>> ] >>

HasNaN(logrecord) ==
    NaN \in Range(logrecord.body)
        \/ (NEXT_LOGLINE_NAME \in DOMAIN logrecord.attributes
            /\ NaN \in Range(logrecord.attributes[NEXT_LOGLINE_NAME]))

\* transform is called with records without missing entries
TransformRecords == {r \in DOMAIN LogRecords : ~HasNaN(LogRecords[r])}

-----------------------------------------------------------------------------
(* The state machine *)

Call(op, o, r, e, calls, s, samples) ==
    [op |-> op, o |-> o, rec |-> r, error |-> e, calls |-> calls,
     step |-> s, samples |-> samples]

\* _process_logsequence has not been given an input
NoInput ==
    [op |-> "none", sep |-> <<>>, data |-> <<>>, segments |-> {},
     via |-> "none", before |-> None]

Init ==
    /\ config \in [Orchestrators -> [feature_type : FeatureTypes,
                                      label_type : LabelTypes]]
    /\ seq_vocab = [o \in Orchestrators |-> None]
    /\ sem_vocab = [o \in Orchestrators |-> None]
    /\ meta_data = [o \in Orchestrators |-> EmptyDict]
    /\ file = NoFile
    /\ last = Call("new", 0, 0, "", <<>>, "none", None)
    /\ pending = None
    /\ pre = NoInput

Fit(o, r) ==
    \E out \in fit(Self(o), file, LogRecords[r]) :
        /\ seq_vocab' = [seq_vocab EXCEPT ![o] = out.self.seq_vocab]
        /\ sem_vocab' = [sem_vocab EXCEPT ![o] = out.self.sem_vocab]
        /\ meta_data' = [meta_data EXCEPT ![o] = out.self.meta_data]
        /\ file' = out.file
        /\ last' = Call("fit", o, r, out.error, out.calls, out.step, None)
        /\ UNCHANGED <<config, pending, pre>>

TransformLazyFit(o, r) ==
    LET self == [Self(o) EXCEPT !.seq_vocab =
                    IF @ = None THEN Some(SequentialFit(LogRecords[r].body)) ELSE @]
        out == transform(self, LogRecords[r])
    IN  /\ last' = Call("transform", o, r, out.error, out.calls, "none", out.samples)
        /\ seq_vocab' = [seq_vocab EXCEPT ![o] = self.seq_vocab]
        /\ UNCHANGED <<config, sem_vocab, meta_data, file, pending, pre>>

Transform(o, r) ==
    LET out == transform(Self(o), LogRecords[r])
    IN  /\ last' = Call("transform", o, r, out.error, out.calls, "none", out.samples)
        /\ UNCHANGED <<config, seq_vocab, sem_vocab, meta_data, file, pending, pre>>

Next ==
    \/ \E o \in Orchestrators, r \in DOMAIN LogRecords : Fit(o, r)
    \/ \E o \in Orchestrators, r \in TransformRecords : Transform(o, r)

Spec == Init /\ [][Next]_vars

-----------------------------------------------------------------------------
(* The write of the metadata file step by step, and its interruption:       *)
(* open(path, "wb") creates the file empty, pkl.dump then writes the items  *)
(* and the STOP mark last.  No call starts while a write is under way.      *)

FitBegin(o, r) ==
    /\ pending = None
    /\ \E out \in fit(Self(o), file, LogRecords[r]) :
        LET writes == ~file.exists /\ out.file.exists
        IN  /\ seq_vocab' = [seq_vocab EXCEPT ![o] = out.self.seq_vocab]
            /\ sem_vocab' = [sem_vocab EXCEPT ![o] = out.self.sem_vocab]
            /\ meta_data' = [meta_data EXCEPT ![o] = out.self.meta_data]
            /\ file' = IF writes THEN [exists |-> TRUE, bytes |-> <<>>]
                       ELSE out.file
            /\ pending' = IF writes THEN Some(out.file.bytes) ELSE None
            /\ last' = Call("fit", o, r, out.error, out.calls,
                            IF writes THEN "writing" ELSE out.step, None)
            /\ UNCHANGED <<config, pre>>

WriteNext ==
    /\ pending # None
    /\ file' = [file EXCEPT !.bytes = Append(@, Head(pending[1]))]
    /\ IF Len(pending[1]) = 1
       THEN /\ pending' = None
            /\ last' = [last EXCEPT !.step = "computed"]
       ELSE /\ pending' = Some(Tail(pending[1]))
            /\ UNCHANGED last
    /\ UNCHANGED <<config, seq_vocab, sem_vocab, meta_data, pre>>

\* the process is interrupted during the write: by an exception that the
\* caller survives (the objects live on), or killed (a new process builds
\* the orchestrators anew); the file keeps what was written
Interrupt(killed) ==
    /\ pending # None
    /\ pending' = None
    /\ last' = [last EXCEPT !.op = "interrupt",
                            !.error = IF killed THEN "killed" ELSE "KeyboardInterrupt"]
    /\ IF killed
       THEN /\ seq_vocab' = [o \in Orchestrators |-> None]
            /\ sem_vocab' = [o \in Orchestrators |-> None]
            /\ meta_data' = [o \in Orchestrators |-> EmptyDict]
       ELSE UNCHANGED <<seq_vocab, sem_vocab, meta_data>>
    /\ UNCHANGED <<config, file, pre>>

TransformIdle(o, r) == pending = None /\ Transform(o, r)

\* the records the calls are made with here
InterruptRecords == {1, 4}

NextInterrupt ==
    \/ \E o \in Orchestrators, r \in InterruptRecords : FitBegin(o, r)
    \/ WriteNext
    \/ \E killed \in BOOLEAN : Interrupt(killed)
    \/ \E o \in Orchestrators, r \in InterruptRecords \cap TransformRecords :
          TransformIdle(o, r)

SpecInterrupt == Init /\ [][NextInterrupt]_vars

-----------------------------------------------------------------------------
(* _process_logsequence on its own: one configured separator, one input     *)
(* sequence, then the same entries in another order or the output fed back. *)

MaxEntries == 2
MaxEntryLen == 2

\* characters of the entries; "-" and "a" also make up separators
Alphabet == {"a", "-"}

\* configured values of sep_token: the default and three others
SepTokens == {sep_token, <<"-">>, <<"a", "-">>, <<"-", "-">>}

Texts == UNION {[1..n -> Alphabet] : n \in 0..MaxEntryLen}
Entries == Texts \cup {NaN}
DataSequences == UNION {[1..n -> Entries] : n \in 0..MaxEntries}

Reorderings(q) ==
    {[i \in DOMAIN q |-> q[p[i]]] :
        p \in {f \in [DOMAIN q -> DOMAIN q] :
                  \A i, j \in DOMAIN q : f[i] = f[j] => i = j}}

InitPre ==
    /\ config = [o \in Orchestrators |->
                    [feature_type |-> "sequential", label_type |-> "next_token"]]
    /\ seq_vocab = [o \in Orchestrators |-> None]
    /\ sem_vocab = [o \in Orchestrators |-> None]
    /\ meta_data = [o \in Orchestrators |-> EmptyDict]
    /\ file = NoFile
    /\ last = Call("new", 0, 0, "", <<>>, "none", None)
    /\ pending = None
    /\ \E sep \in SepTokens, data \in DataSequences :
          pre = [op |-> "input", sep |-> sep, data |-> data, segments |-> {},
                 via |-> "none", before |-> None]

Process ==
    /\ pre.op = "input"
    /\ pre' = [pre EXCEPT !.op = "processed",
                          !.segments = process_logsequence(pre.sep, pre.data)]
    /\ UNCHANGED <<config, seq_vocab, sem_vocab, meta_data, file, last, pending>>

\* the same entries in another order
Permute ==
    /\ pre.op = "processed" /\ pre.before = None
    /\ \E q \in Reorderings(pre.data) :
          pre' = [pre EXCEPT !.op = "input", !.data = q, !.segments = {},
                             !.via = "permute", !.before = Some(pre.segments)]
    /\ UNCHANGED <<config, seq_vocab, sem_vocab, meta_data, file, last, pending>>

\* the output, as the series list(set(...)) makes of it, as the next input
Reprocess ==
    /\ pre.op = "processed" /\ pre.before = None
    /\ \E q \in Orderings(pre.segments) :
          pre' = [pre EXCEPT !.op = "input", !.data = q, !.segments = {},
                             !.via = "reprocess", !.before = Some(pre.segments)]
    /\ UNCHANGED <<config, seq_vocab, sem_vocab, meta_data, file, last, pending>>

NextPre == Process \/ Permute \/ Reprocess

SpecPre == InitPre /\ [][NextPre]_vars

-----------------------------------------------------------------------------
(* Properties *)

FeatureType(o) == config[o].feature_type
LabelType(o) == config[o].label_type

Supported(o) == FeatureType(o) \in {"sequential", "semantics"}

\* the vocabularies fit needs are built
Built(o) ==
    /\ seq_vocab[o] # None
    /\ FeatureType(o) = "semantics" => sem_vocab[o] # None

\* the step just taken is a call of fit
FitStep == last'.op = "fit" /\ vars' # vars

\* the step just taken is a call of fit that reached _dump_meta_data
MetaStep == FitStep /\ last'.step # "none"

HasNext(r) == NEXT_LOGLINE_NAME \in DOMAIN LogRecords[r].attributes

SpanCount(r) == Len(LogRecords[r].span_id)

Aligned(r) ==
    /\ Len(LogRecords[r].body) = SpanCount(r)
    /\ Len(LogRecords[r].labels) = SpanCount(r)
    /\ HasNext(r) => Len(LogRecords[r].attributes[NEXT_LOGLINE_NAME]) = SpanCount(r)

\* C1: a fit on an orchestrator whose required vocabularies are built calls
\* no sub-vectorizer fit and leaves both vocabularies as they were, whatever
\* the record and however often it is repeated.
C1_FitOnBuiltIsNoRefit ==
    [][\A o \in Orchestrators :
        (FitStep /\ last'.o = o /\ Built(o)) =>
            /\ last'.calls = <<>>
            /\ seq_vocab' = seq_vocab
            /\ sem_vocab' = sem_vocab]_vars

\* a fit that ended well on built vocabularies, with a record that has no
\* next-line attribute
C1_Witness ==
    /\ last.op = "fit" /\ last.error = "" /\ last.calls = <<>>
    /\ Built(last.o) /\ ~HasNext(last.rec)

\* C2: when the metadata file exists as fit reaches its metadata step,
\* meta_data becomes exactly what the file holds and nothing is recomputed.
C2_ExistingFileIsLoadedVerbatim ==
    [][(MetaStep /\ file.exists) =>
          /\ last'.error = ""
          /\ meta_data'[last'.o] = Unpickle(file.bytes).value]_vars

\* a fit loaded a vocab_size that is not the size of its own vocabulary
C2_Witness ==
    /\ last.op = "fit" /\ last.error = "" /\ last.step = "loaded"
    /\ Supported(last.o)
    /\ meta_data[last.o]["vocab_size"] #
         (IF FeatureType(last.o) = "semantics"
          THEN VocabSizeOf(sem_vocab[last.o])
          ELSE VocabSizeOf(seq_vocab[last.o]))

\* C3: dataset construction never returns a dataset when the four inputs
\* differ in length.
C3_MisalignedInputsRejected ==
    (last.op = "transform" /\ ~Aligned(last.rec)) => last.samples = None

\* C4: for a record whose views are aligned, transform on a fit orchestrator
\* of a supported feature type returns one sample per span, in order, with
\* session_idx, window_anomalies and features of that span.
C4_OneSamplePerSpan ==
    (last.op = "transform" /\ Aligned(last.rec) /\ Built(last.o)
        /\ Supported(last.o)) =>
        /\ last.error = ""
        /\ last.samples # None
        /\ Len(last.samples[1]) = SpanCount(last.rec)
        /\ \A i \in 1..SpanCount(last.rec) :
            /\ last.samples[1][i].session_idx = <<LogRecords[last.rec].span_id[i]>>
            /\ last.samples[1][i].window_anomalies = LogRecords[last.rec].labels[i]
            /\ last.samples[1][i].features =
                 (IF FeatureType(last.o) = "semantics"
                  THEN SemanticTransform(sem_vocab[last.o],
                                         LogRecords[last.rec].body).value[i]
                  ELSE SequentialTransform(seq_vocab[last.o],
                                           LogRecords[last.rec].body).value[i])

\* C5: transform of a record without next-line attribute raises nothing and
\* returns one sample per span.
C5_NoNextLineStillReturns ==
    (last.op = "transform" /\ ~HasNext(last.rec) /\ Aligned(last.rec)
        /\ Built(last.o) /\ Supported(last.o)) =>
        /\ last.error = ""
        /\ last.samples # None
        /\ Len(last.samples[1]) = SpanCount(last.rec)

\* C6: transform with a feature type that is neither "sequential" nor
\* "semantics" raises a configuration error before any sub-vectorizer call
\* (stated for an orchestrator whose sequential vocabulary is built, so that
\* no other error is in play).
C6_UnsupportedFeatureTypeRejected ==
    (last.op = "transform" /\ ~Supported(last.o) /\ Built(last.o)) =>
        /\ last.error = "ConfigurationError"
        /\ last.calls = <<>>

\* C7: once the metadata file exists, no call changes it.
C7_FileWrittenOnce == [][file.exists => file' = file]_vars

\* an orchestrator fitted its own vocabulary while the file already existed
C7_Witness ==
    /\ file.exists
    /\ last.op = "fit" /\ last.step = "loaded" /\ last.calls # <<>>

\* C8 as claimed: after a fit that ended well, meta_data holds
\* pretrain_matrix exactly when the feature type is "semantics".
C8_PretrainIffSemantic ==
    (last.op = "fit" /\ last.error = "") =>
        ("pretrain_matrix" \in DOMAIN meta_data[last.o]
            <=> FeatureType(last.o) = "semantics")

\* C8 amended: after a fit that ended well and found no metadata file,
\* meta_data holds pretrain_matrix exactly when the feature type is
\* "semantics"; after one that found the file, exactly when the file does.
C8_PretrainIffSemanticWhenComputed ==
    [][(MetaStep /\ last'.error = "") =>
          ("pretrain_matrix" \in DOMAIN meta_data'[last'.o]
              <=> IF file.exists
                  THEN "pretrain_matrix" \in DOMAIN Unpickle(file.bytes).value
                  ELSE FeatureType(last'.o) = "semantics")]_vars

\* a "semantics" orchestrator computed its metadata, with pretrain_matrix
C8_Witness ==
    /\ last.op = "fit" /\ last.error = "" /\ last.step = "computed"
    /\ FeatureType(last.o) = "semantics"
    /\ "pretrain_matrix" \in DOMAIN meta_data[last.o]

\* C9: a metadata step that finds no file stores as vocab_size the semantic
\* vocabulary size for "semantics" and the sequential one for every other
\* feature type.
C9_VocabSizeSource ==
    [][(MetaStep /\ ~file.exists) =>
          /\ last'.error = ""
          /\ "vocab_size" \in DOMAIN meta_data'[last'.o]
          /\ meta_data'[last'.o]["vocab_size"] =
               (IF FeatureType(last'.o) = "semantics"
                THEN VocabSizeOf(sem_vocab'[last'.o])
                ELSE VocabSizeOf(seq_vocab'[last'.o]))]_vars

\* C10: a metadata step that finds no file stores as num_labels 2 for label
\* type "anomaly" and the sequential vocabulary size otherwise, for both
\* supported feature types.
C10_NumLabels ==
    [][(MetaStep /\ ~file.exists /\ Supported(last'.o)) =>
          /\ last'.error = ""
          /\ meta_data'[last'.o]["num_labels"] =
               (IF LabelType(last'.o) = "anomaly" THEN 2
                ELSE VocabSizeOf(seq_vocab'[last'.o]))]_vars

\* a "semantics" orchestrator stored a num_labels that is the sequential
\* size and not its vocab_size
C10_Witness ==
    /\ last.op = "fit" /\ last.error = "" /\ last.step = "computed"
    /\ FeatureType(last.o) = "semantics" /\ LabelType(last.o) # "anomaly"
    /\ meta_data[last.o]["num_labels"] = VocabSizeOf(seq_vocab[last.o])
    /\ meta_data[last.o]["num_labels"] # meta_data[last.o]["vocab_size"]

\* C11 as claimed: a metadata record computed for a label type other than
\* "anomaly" has num_labels equal to its own vocab_size.
C11_NumLabelsIsVocabSize ==
    [][(MetaStep /\ ~file.exists /\ last'.error = ""
          /\ LabelType(last'.o) # "anomaly") =>
          meta_data'[last'.o]["num_labels"] = meta_data'[last'.o]["vocab_size"]]_vars

\* C11 amended: such a record has the sequential vocabulary size as
\* num_labels; that is its vocab_size for "sequential", and for "semantics"
\* exactly when the two vocabularies have the same size.
C11_NumLabelsIsSequentialSize ==
    [][(MetaStep /\ ~file.exists /\ last'.error = ""
          /\ LabelType(last'.o) # "anomaly") =>
          /\ meta_data'[last'.o]["num_labels"] = VocabSizeOf(seq_vocab'[last'.o])
          /\ (meta_data'[last'.o]["num_labels"] = meta_data'[last'.o]["vocab_size"])
               <=> (FeatureType(last'.o) = "sequential"
                      \/ VocabSizeOf(sem_vocab'[last'.o])
                           = VocabSizeOf(seq_vocab'[last'.o]))]_vars

\* a "sequential" orchestrator computed a record for next-token labels
C11_Witness ==
    /\ last.op = "fit" /\ last.error = "" /\ last.step = "computed"
    /\ FeatureType(last.o) = "sequential" /\ LabelType(last.o) # "anomaly"
    /\ meta_data[last.o]["num_labels"] = meta_data[last.o]["vocab_size"]
    /\ meta_data[last.o]["num_labels"] # 2

NextLines(r) == LogRecords[r].attributes[NEXT_LOGLINE_NAME]

\* C13: when the record has a next-line attribute, window_labels of sample i
\* is the first id of the sequential sub-vectorizer's output for next line i,
\* whatever the feature type.
C13_TargetsAreSequentialFirstIds ==
    (last.op = "transform" /\ last.error = "" /\ HasNext(last.rec)) =>
        \A i \in 1..Len(last.samples[1]) :
            last.samples[1][i].window_labels =
                SequentialTransform(seq_vocab[last.o], NextLines(last.rec)).value[i][1]

\* a "semantics" orchestrator returned a target that is not the id the
\* semantic vocabulary gives the next line
C13_Witness ==
    /\ last.op = "transform" /\ last.error = "" /\ HasNext(last.rec)
    /\ FeatureType(last.o) = "semantics"
    /\ \E i \in 1..Len(last.samples[1]) :
          last.samples[1][i].window_labels #
              SequentialTransform(sem_vocab[last.o], NextLines(last.rec)).value[i][1]

\* a vocabulary that transform of record r needs is still unset
NeededVocabUnset(o, r) ==
    \/ FeatureType(o) = "sequential" /\ seq_vocab[o] = None
    \/ FeatureType(o) = "semantics" /\ sem_vocab[o] = None
    \/ HasNext(r) /\ seq_vocab[o] = None

Corpora(r) ==
    Orderings(process_logsequence(sep_token, LogRecords[r].body \o NextLines(r)))

C19_FitWithoutNextLineFailsEarly ==
    [][\A o \in Orchestrators :
        (FitStep /\ last'.o = o /\ ~Built(o) /\ ~HasNext(last'.rec)) =>
            /\ last'.error # ""
            /\ last'.calls = <<>>
            /\ last'.step = "none"
            /\ UNCHANGED <<seq_vocab, sem_vocab, meta_data, file>>]_vars

\* such a fit failed on an orchestrator whose sequential vocabulary is set
\* and whose semantic one is not
C19_Witness ==
    /\ last.op = "fit" /\ last.error = "KeyError" /\ ~HasNext(last.rec)
    /\ FeatureType(last.o) = "semantics"
    /\ seq_vocab[last.o] # None /\ sem_vocab[last.o] = None

\* C20: a transform call, whether it returns or raises, leaves both
\* vocabularies, meta_data and the metadata file as they were.
C20_TransformChangesNothing ==
    [][(last'.op = "transform" /\ vars' # vars) =>
          UNCHANGED <<config, seq_vocab, sem_vocab, meta_data, file>>]_vars

\* a transform raised on an orchestrator that holds vocabulary and metadata
C20_Witness ==
    /\ last.op = "transform" /\ last.error = "TypeError"
    /\ Built(last.o) /\ meta_data[last.o] # EmptyDict /\ file.exists

\* the file is there and pkl.load cannot read it
Unreadable(f) == f.exists /\ Unpickle(f.bytes).error # ""

\* C12: whenever no write is under way (so at every point where a later
\* metadata step can look at the file, an interruption included), the path
\* has no file or the complete serialized record.
C12_NoPartialFile == pending = None => ~Unreadable(file)

\* the step just taken is a call of fit, begun when no write was under way
FitCall == last'.op = "fit" /\ pending = None /\ last' # last

\* C16: a fit that finds a metadata file it cannot deserialize fails, and
\* leaves the file and meta_data as they were.
C16_UnreadableFileSurfaces ==
    [][(FitCall /\ last'.step # "none" /\ Unreadable(file)) =>
          /\ last'.error # ""
          /\ file' = file
          /\ meta_data' = meta_data]_vars

\* a fit failed on an unreadable file, on an orchestrator that still holds
\* the record it had computed
C16_Witness ==
    /\ last.op = "fit" /\ last.step = "loaded" /\ last.error # ""
    /\ Unreadable(file)
    /\ meta_data[last.o] # EmptyDict

\* no proper prefix of sep is also a suffix of it
BorderFree(sep) ==
    \A k \in 1..(Len(sep) - 1) :
        SubSeq(sep, 1, k) # SubSeq(sep, Len(sep) - k + 1, Len(sep))

Again == pre.op = "processed" /\ pre.before # None

\* C14: processing any permutation of an input, or the preprocessor's own
\* output, yields the same set of segments as the input did.
C14_IdempotentOrderIndependent == Again => pre.segments = pre.before[1]

\* C14 amended: the same, for a separator none of whose proper prefixes is
\* also a suffix of it (the default "[SEP]" is one).
C14_IdempotentOrderIndependentBorderFree ==
    (Again /\ BorderFree(pre.sep)) => pre.segments = pre.before[1]

\* a reordered input with two entries that each hold the separator, processed
C14_Witness ==
    /\ Again /\ BorderFree(pre.sep) /\ pre.via = "permute"
    /\ Len(pre.data) = 2 /\ pre.data[1] # pre.data[2]
    /\ \A i \in 1..2 : pre.data[i] # NaN /\ Len(Split(pre.data[i], pre.sep)) = 2
    /\ Cardinality(pre.segments) >= 2

\* C15: an input that is empty or has only missing entries yields zero segments.
C15_EmptyInputEmptyCorpus ==
    (pre.op = "processed" /\ \A i \in DOMAIN pre.data : pre.data[i] = NaN)
        => pre.segments = {}

====
